---- MODULE Spec2Model ----
(***************************************************************************)
(* Writer side of the left-right primitive (src/src/write.rs) with the     *)
(* counter data type of src/src/utilities.rs (V = i32, operations = a list *)
(* of i32 deltas).  One writer thread runs append / publish / take; each   *)
(* registered reader runs the entry / exit discipline on its own epoch     *)
(* counter.  Every access to shared memory (an epoch counter, the          *)
(* foreground pointer) is one step, so that readers interleave with the    *)
(* writer between any two of them.  Code that touches only the writer's    *)
(* own memory is folded into the neighbouring step.  wait's spin counter   *)
(* (iter) and its yield change no state and are left out; the i32 sums     *)
(* stay far from overflow under the bounds below.                          *)
(*                                                                         *)
(* Spec is the writer with two registered readers; SpecWriter is the       *)
(* writer alone, where no reader enters and the deltas are arbitrary, with *)
(* flush, Drop and the Taken value; SpecCycles is SpecWriter in a build    *)
(* that counts its publishes (the cfg(test) field refreshes); SpecContract *)
(* is SpecWriter over a data type whose absorb_second may not drain;       *)
(* SpecLive is Spec with fairness, an empty or a full registry, and        *)
(* counters wide enough not to wrap in the MaxSections critical sections   *)
(* each reader enters; SpecReuse is Spec with a reader that releases its   *)
(* slot and new readers that register in it.                               *)
(***************************************************************************)
EXTENDS Integers, Sequences, FiniteSets

(* ------------------------------ bounds -------------------------------- *)

\* total number of operations the writer appends in one behaviour
MaxOps == 3

\* the same, in the behaviours where readers run concurrently
MaxOpsConc == 1

\* width of an epoch counter in bits (usize in the source); counters wrap
EpochBits == 2

\* number of publishes in one behaviour of a build that counts them
MaxRefreshes == 8

\* the critical sections one reader enters while liveness is checked
MaxSections == 2

(* ----------------------------- constants ------------------------------ *)

\* a counter that wraps one value early, to an odd number of values
EpochModOdd == 2 ^ EpochBits - 1

\* the number of values of an epoch counter: fetch_add wraps at usize::MAX
EpochMod == 2 ^ EpochBits

\* registered reader slots (indices of the epoch registry)
Slots == {1, 2}

\* capacity of the registry, the length wait resizes last_epochs to
Capacity == Cardinality(Slots)

\* the two instances of V, and the null pointer
Copies == {"left", "right"}
NULL == "null"

\* deltas an appended CounterAddOp may carry
Deltas == {1, 2}

\* initial values of the counter (crate::new gives 0, new_from_empty(2) gives 2)
InitVals == {0, 2}

VARIABLES
    val,          \* val[c]: the i32 held by copy c
    w_handle,     \* WriteHandle.w_handle: the copy the writer retains
    r_handle,     \* WriteHandle.r_handle.inner: the atomic foreground pointer
    partial_ops,  \* WriteHandle.partial_ops
    pending_ops,  \* WriteHandle.pending_ops
    last_epochs,  \* WriteHandle.last_epochs (a Vec, 1-based here)
    second,       \* WriteHandle.second
    taken,        \* WriteHandle.taken
    epochs,       \* the registry: epochs[s] is the counter of slot s
    pc,           \* the writer's position
    ctx,          \* which call the running publish / wait belongs to
    ii,           \* wait's loop position / publish's snapshot loop position
    result,       \* the copy take_inner returned in Taken, or NULL
    rpc,          \* rpc[s]: the position of the reader of slot s, or
                  \* "vacant" when no reader holds the slot
    held,         \* held[s]: the pointer the reader loaded on entry
    \* history variables, read only by the properties
    hist,         \* hist[c]: the deltas copy c absorbed, in order
    appended,     \* every delta appended so far, in order
    init,         \* the initial value of both copies
    atCall,       \* pending_ops when the running publish was called
    swappedN,     \* number of appended ops covered by a pointer swap
    publishedN,   \* number of appended ops covered by a returned publish
    quiet,        \* publishes returned since the last append (capped at 2)
    spanned,      \* spanned[s]: publishes returned while s holds its section
    reused,       \* the slots a new reader registered in, and holds, since
                  \* the snapshot loop last passed them
    \* the data type the writer is instantiated with
    absorbs,      \* which absorb_second the data type brings (AbsorbKinds)
    \* more history variables
    lastCall,     \* the writer's latest call: "append", "publish", "flush",
                  \* "flush_again" (a flush right after a flush), "take"
    cyc,          \* what the running publish has done so far, see CycStart
    syncs,        \* number of sync_with calls so far
    caller,       \* the function that called take_inner: "take" or "drop"
    box,          \* the Taken value: "none", "held", "dropped", "unboxed"
    reclaim,      \* the copies drop_first was called on, those handed out
                  \* in a Taken, and those drop_second was called on
    moved,        \* the slots whose counter the latest wait loaded and found
                  \* different from the snapshot
    cfg_test,     \* whether the build has the cfg(test) fields
    refreshes,    \* WriteHandle.refreshes, a cfg(test) field
    via,          \* via[c][i]: the call that made copy c absorb hist[c][i],
                  \* and the publish (counted from 1) that made it; kept
                  \* in a build that counts its publishes
    bornAt        \* bornAt[i]: refreshes when appended[i] was appended

vars == << val, w_handle, r_handle, partial_ops, pending_ops, last_epochs,
           second, taken, epochs, pc, ctx, ii, result, rpc, held,
           hist, appended, init, atCall, swappedN, publishedN, quiet,
           spanned, reused, absorbs, lastCall, cyc, syncs, caller, box,
           reclaim, moved, cfg_test, refreshes, via, bornAt >>

writerVars == << val, w_handle, r_handle, partial_ops, pending_ops,
                 last_epochs, second, taken, pc, ctx, ii, result >>

readerVars == << epochs, rpc, held, spanned, reused >>

ghostVars == << hist, appended, init, atCall, swappedN, publishedN, quiet >>

lifeVars == << caller, box, reclaim >>

cycleVars == << cfg_test, refreshes, via, bornAt >>

auditVars == << absorbs, lastCall, cyc, syncs, caller, box, reclaim, moved,
               cfg_test, refreshes, via, bornAt >>

(* --------------------- the counter data capability -------------------- *)
(* A copy is handed to the capability as [v |-> its i32, h |-> the deltas  *)
(* it has absorbed, t |-> the call and the publish that made it absorb     *)
(* each, n |-> the publish that is running]; a call returns the copy and   *)
(* the batch as it leaves them.                                            *)

\* a loop over a batch that misses its first delta
RECURSIVE SumTail(_)
SumTail(log) == IF Len(log) <= 1 THEN 0 ELSE log[2] + SumTail(Tail(log))
SumOpsFromSecond(log) == SumTail(log)

\* the loop over a batch that adds every delta
RECURSIVE SumOps(_)
SumOps(log) == IF log = << >> THEN 0 ELSE Head(log) + SumOps(Tail(log))

\* T::is_empty on a batch (log_empty: Vec::is_empty)
is_empty(log) == Len(log) = 0

\* the marks call f of publish n leaves, one for each operation of log
Marks(log, f, n) == [i \in 1..Len(log) |-> [f |-> f, n |-> n]]

\* copy c after it has absorbed the batch log in call f
Absorbed(c, log, f) ==
    [c EXCEPT !.v = @ + SumOps(log), !.h = @ \o log,
              !.t = @ \o Marks(log, f, c.n)]

\* absorb_first that drains the batch it is lent
absorb_first_drain(c, log) ==
    [copy |-> Absorbed(c, log, "absorb_first"), log |-> << >>]

\* absorb_first that applies nothing
absorb_first_skip(c, log) == [copy |-> c, log |-> log]

\* Absorb::absorb_first: adds every delta, leaves the batch as it is
absorb_first(c, log) ==
    [copy |-> Absorbed(c, log, "absorb_first"), log |-> log]

\* absorb_second that drains the batch without applying it
absorb_second_skip(c, log) == [copy |-> c, log |-> << >>]

\* absorb_second that applies the batch twice
absorb_second_twice(c, log) ==
    [copy |-> Absorbed(Absorbed(c, log, "absorb_second"), log,
                       "absorb_second"),
     log |-> << >>]

\* Absorb::absorb_second: adds every delta and drains the batch
absorb_second(c, log) ==
    [copy |-> Absorbed(c, log, "absorb_second"), log |-> << >>]

\* an absorb_second that adds every delta and leaves the batch as lent
absorb_second_keeping(c, log) ==
    [copy |-> Absorbed(c, log, "absorb_second"), log |-> log]

\* an absorb_second that applies nothing and leaves the batch as lent
absorb_second_ignoring(c, log) == [copy |-> c, log |-> log]

\* an absorb_second that adds and removes the first delta only
absorb_second_partly(c, log) ==
    IF log = << >> THEN [copy |-> c, log |-> log]
    ELSE [copy |-> Absorbed(c, << Head(log) >>, "absorb_second"),
          log |-> Tail(log)]

\* the implementations of absorb_second a data type may bring: the
\* counter's, and three that break the contract to drain the batch
AbsorbKinds == {"drains", "keeps", "ignores", "partly"}

\* T::absorb_second as publish calls it, for the data type in use
T_absorb_second(c, log) ==
    CASE absorbs = "drains" -> absorb_second(c, log)
      [] absorbs = "keeps" -> absorb_second_keeping(c, log)
      [] absorbs = "ignores" -> absorb_second_ignoring(c, log)
      [] absorbs = "partly" -> absorb_second_partly(c, log)

\* Absorb::sync_with: *self = *first
sync_with(c, first) == first

(* ------------------------------- helpers ------------------------------ *)

\* a resize that clears the values the vector holds
ResizeCleared(v, n) == [i \in 1..n |-> 0]

\* Vec::resize(n, 0): truncates, or fills with zeros
Resize(v, n) == [i \in 1..n |-> IF i <= Len(v) THEN v[i] ELSE 0]

Min(a, b) == IF a < b THEN a ELSE b

\* the record of a publish call: the wait calls that returned, the
\* capability calls made in order, the copy they were made on and the copy
\* they were given to read, the pointer swaps, and the foreground pointer
\* and value when the call began
CycNone ==
    [waits |-> 0, calls |-> << >>, target |-> NULL, source |-> NULL,
     swaps |-> 0, fg |-> NULL, seen |-> 0]

CycStart == [CycNone EXCEPT !.fg = r_handle, !.seen = val[r_handle]]

\* the number of slots of the registry, which wait and the snapshot loop
\* iterate over
Registered == Len(epochs)

\* slot s holds a reader's counter: epochs.iter() yields it
Occupied(s) == s \in DOMAIN epochs /\ rpc[s] # "vacant"

\* the instance of V behind pointer c
CopyOf(c) == [v |-> val[c], h |-> hist[c], t |-> via[c], n |-> refreshes + 1]

\* the state WriteHandle::new leaves: both copies hold i, the registry is
\* registry, the data type's absorb_second is d, and the build
\* counts publishes iff t
InitState(i, registry, d, t) ==
    /\ init = i
    /\ val = [c \in Copies |-> i]
    /\ w_handle = "left"
    /\ r_handle = "right"
    /\ partial_ops = << >>
    /\ pending_ops = << >>
    /\ last_epochs = << >>
    /\ second = TRUE
    /\ taken = FALSE
    /\ epochs = registry
    /\ pc = "idle"
    /\ ctx = "user"
    /\ ii = 1
    /\ result = NULL
    /\ rpc = [s \in Slots |-> "out"]
    /\ held = [s \in Slots |-> NULL]
    /\ hist = [c \in Copies |-> << >>]
    /\ appended = << >>
    /\ atCall = << >>
    /\ swappedN = 0
    /\ publishedN = 0
    /\ quiet = 0
    /\ spanned = [s \in Slots |-> -1]
    /\ reused = {}
    /\ absorbs = d
    /\ lastCall = "none"
    /\ cyc = CycNone
    /\ syncs = 0
    /\ caller = "none"
    /\ box = "none"
    /\ reclaim = [first |-> << >>, handed |-> << >>, second |-> << >>]
    /\ moved = {}
    /\ cfg_test = t
    /\ refreshes = 0
    /\ via = [c \in Copies |-> << >>]
    /\ bornAt = << >>

\* the counter, from any of its initial values
InitWriter ==
    \E i \in InitVals : InitState(i, [s \in Slots |-> 0], "drains", FALSE)

\* with readers running, the counter starts as new_from_empty(2) gives it
Init == InitState(2, [s \in Slots |-> 0], "drains", FALSE)

\* a data type that adds like the counter, with any of the absorb_second
\* implementations
InitContract ==
    \E i \in InitVals, d \in AbsorbKinds :
        InitState(i, [s \in Slots |-> 0], d, FALSE)

(* ------------------------------ the writer ---------------------------- *)

\* WriteHandle::pending, and the push the caller does through it
AppendOp(d, max) ==
    /\ pc = "idle"
    /\ Len(appended) < max
    /\ pending_ops' = Append(pending_ops, d)
    /\ appended' = Append(appended, d)
    /\ quiet' = 0
    /\ UNCHANGED << val, w_handle, r_handle, partial_ops, last_epochs, second,
                    taken, pc, ctx, ii, result >>
    /\ UNCHANGED << hist, init, atCall, swappedN, publishedN >>
    /\ UNCHANGED readerVars
    /\ lastCall' = "append"
    /\ bornAt' = Append(bornAt, refreshes)
    /\ UNCHANGED << absorbs, cyc, syncs, moved, cfg_test, refreshes, via >>
    /\ UNCHANGED lifeVars

\* the start of wait: the registry is locked, last_epochs is resized and
\* the scan starts at the first slot
WaitBegin(c) ==
    /\ pc' = "wait"
    /\ ctx' = c
    /\ ii' = 1
    /\ last_epochs' = Resize(last_epochs, Capacity)
    /\ moved' = {}

\* a call of publish, by the user or by take_inner
CallPublish(c) ==
    /\ WaitBegin(c)
    /\ atCall' = pending_ops
    /\ cyc' = CycStart

\* a build that counts its publishes runs at most MaxRefreshes of them, the
\* last two of which are left to take_inner
MayPublish == cfg_test => refreshes + 2 < MaxRefreshes

\* WriteHandle::publish, up to its first access to shared memory
Publish ==
    /\ pc = "idle"
    /\ MayPublish
    /\ CallPublish("user")
    /\ UNCHANGED << val, w_handle, r_handle, partial_ops, pending_ops, second,
                    taken, result >>
    /\ UNCHANGED << hist, appended, init, swappedN, publishedN, quiet >>
    /\ UNCHANGED readerVars
    /\ lastCall' = "publish"
    /\ UNCHANGED << absorbs, syncs >>
    /\ UNCHANGED lifeVars
    /\ UNCHANGED cycleVars

\* wait that never loads a counter: only an even snapshot passes
WaitPassParityOnly(s) == last_epochs[s] % 2 = 0

\* wait with the parity test inverted: an odd snapshot is skipped
WaitPassInverted(s) ==
    \/ last_epochs[s] % 2 = 1
    \/ epochs[s] # last_epochs[s]

\* wait that never retries
WaitPassAlways(s) == TRUE

\* wait's decision for one slot: the snapshot is even, or the counter moved
WaitPass(s) ==
    \/ last_epochs[s] % 2 = 0
    \/ epochs[s] # last_epochs[s]

\* one iteration of wait's scan: on a pass, or at a vacant slot, go to the
\* next slot, otherwise retry from this slot; after the last slot wait
\* returns, to publish or to take_inner
WaitStep ==
    /\ pc = "wait"
    /\ IF Occupied(ii) /\ ~WaitPass(ii)
       THEN UNCHANGED << pc, ii, cyc >>
       ELSE IF ii < Registered
       THEN ii' = ii + 1 /\ UNCHANGED << pc, cyc >>
       ELSE /\ pc' = IF ctx = "take_wait" THEN "take_drop" ELSE "absorb"
            /\ cyc' = IF ctx = "take_wait" THEN cyc
                      ELSE [cyc EXCEPT !.waits = @ + 1]
            /\ UNCHANGED ii
    /\ UNCHANGED << val, w_handle, r_handle, partial_ops, pending_ops,
                    last_epochs, second, taken, ctx, result >>
    /\ UNCHANGED ghostVars
    /\ UNCHANGED readerVars
    /\ moved' = IF /\ Occupied(ii)
                   /\ last_epochs[ii] % 2 = 1
                   /\ epochs[ii] # last_epochs[ii]
                THEN moved \cup {ii} ELSE moved
    /\ UNCHANGED << absorbs, lastCall, syncs >>
    /\ UNCHANGED lifeVars
    /\ UNCHANGED cycleVars

\* how many of the capability calls in calls are calls of f
RECURSIVE Calls(_, _)
Calls(calls, f) ==
    IF calls = << >> THEN 0
    ELSE (IF Head(calls) = f THEN 1 ELSE 0) + Calls(Tail(calls), f)

\* a replay that does not exchange the two batches
ReplayNoExchange(w, r, partial, pending, sec) ==
    LET c0 == IF sec THEN sync_with(w, r) ELSE w
        a2 == T_absorb_second(c0, partial)
        p2 == IF ~is_empty(a2.log) THEN << >> ELSE a2.log
        a1 == absorb_first(a2.copy, pending)
    IN  [copy |-> a1.copy, partial |-> p2, pending |-> a1.log,
         second |-> FALSE,
         calls |-> (IF sec THEN << "sync_with" >> ELSE << >>) \o
                   << "absorb_second", "absorb_first" >>]

\* a replay that applies pending before partial
ReplayPendingFirst(w, r, partial, pending, sec) ==
    LET c0 == IF sec THEN sync_with(w, r) ELSE w
        a1 == absorb_first(c0, pending)
        a2 == T_absorb_second(a1.copy, partial)
        p2 == IF ~is_empty(a2.log) THEN << >> ELSE a2.log
    IN  [copy |-> a2.copy, partial |-> a1.log, pending |-> p2,
         second |-> FALSE,
         calls |-> (IF sec THEN << "sync_with" >> ELSE << >>) \o
                   << "absorb_first", "absorb_second" >>]

\* a replay that leaves the flag of the first publish set
ReplayKeepsSecond(w, r, partial, pending, sec) ==
    LET c0 == IF sec THEN sync_with(w, r) ELSE w
        a2 == T_absorb_second(c0, partial)
        p2 == IF ~is_empty(a2.log) THEN << >> ELSE a2.log
        a1 == absorb_first(a2.copy, pending)
    IN  [copy |-> a1.copy, partial |-> a1.log, pending |-> p2,
         second |-> sec,
         calls |-> (IF sec THEN << "sync_with" >> ELSE << >>) \o
                   << "absorb_second", "absorb_first" >>]

\* publish's replay onto the background copy w, with the foreground copy r:
\* sync_with on the first publish, absorb_second of partial (and the reset of
\* a batch it left non-empty), absorb_first of pending, and the exchange of
\* the two batches
Replay(w, r, partial, pending, sec) ==
    LET c0 == IF sec THEN sync_with(w, r) ELSE w
        a2 == T_absorb_second(c0, partial)
        p2 == IF ~is_empty(a2.log) THEN << >> ELSE a2.log
        a1 == absorb_first(a2.copy, pending)
    IN  [copy |-> a1.copy, partial |-> a1.log, pending |-> p2,
         second |-> FALSE,
         calls |-> (IF sec THEN << "sync_with" >> ELSE << >>) \o
                   << "absorb_second", "absorb_first" >>]

\* publish that replays onto the copy the readers are using
ReplayTargetForeground == r_handle

\* the copy publish takes its mutable reference to
ReplayTarget == w_handle

\* flush that looks at both batches
has_pending_or_partial == ~is_empty(pending_ops) \/ ~is_empty(partial_ops)

\* WriteHandle::has_pending_operations
has_pending_operations == ~is_empty(pending_ops)

\* WriteHandle::flush: a publish if pending is not empty, nothing otherwise
Flush ==
    /\ pc = "idle"
    /\ MayPublish
    /\ IF has_pending_operations
       THEN CallPublish("user")
       ELSE UNCHANGED << pc, ctx, ii, last_epochs, atCall, cyc, moved >>
    /\ lastCall' = IF lastCall \in {"flush", "flush_again"}
                   THEN "flush_again" ELSE "flush"
    /\ UNCHANGED << val, w_handle, r_handle, partial_ops, pending_ops, second,
                    taken, result >>
    /\ UNCHANGED << hist, appended, init, swappedN, publishedN, quiet >>
    /\ UNCHANGED readerVars
    /\ UNCHANGED << absorbs, syncs >>
    /\ UNCHANGED lifeVars
    /\ UNCHANGED cycleVars

\* publish from the return of wait to the pointer swap: the writer mutates
\* the copy behind w_handle
Absorb ==
    /\ pc = "absorb"
    /\ IF r_handle = NULL
       THEN /\ pc' = "panic"
            /\ UNCHANGED << val, partial_ops, pending_ops, second, hist,
                            cyc, syncs, via >>
       ELSE LET w   == ReplayTarget
                out == Replay(CopyOf(w), CopyOf(r_handle), partial_ops,
                              pending_ops, second)
            IN  /\ val' = [val EXCEPT ![w] = out.copy.v]
                /\ hist' = [hist EXCEPT ![w] = out.copy.h]
                /\ via' = IF cfg_test THEN [via EXCEPT ![w] = out.copy.t]
                          ELSE via
                /\ partial_ops' = out.partial
                /\ pending_ops' = out.pending
                /\ second' = out.second
                /\ cyc' = [cyc EXCEPT !.calls = @ \o out.calls, !.target = w,
                                      !.source = r_handle]
                /\ syncs' = syncs + Calls(out.calls, "sync_with")
                /\ pc' = "swap"
    /\ UNCHANGED << w_handle, r_handle, last_epochs, taken, ctx, ii, result >>
    /\ UNCHANGED << appended, init, atCall, swappedN, publishedN, quiet >>
    /\ UNCHANGED readerVars
    /\ UNCHANGED << absorbs, lastCall, moved >>
    /\ UNCHANGED lifeVars
    /\ UNCHANGED << cfg_test, refreshes, bornAt >>

\* WriteHandle::raw_write_handle: the pointer to the copy the writer retains
raw_write_handle == w_handle

\* a swap that stores the pointer that is already the foreground
SwapInForeground == r_handle

\* the pointer publish swaps in: self.w_handle.as_ptr()
SwapIn == w_handle

\* the atomic swap of the foreground pointer; the old foreground becomes
\* w_handle
SwapPointer ==
    /\ pc = "swap"
    /\ r_handle' = SwapIn
    /\ w_handle' = r_handle
    /\ pc' = "snap"
    /\ ii' = 1
    /\ swappedN' = Len(appended)
    /\ UNCHANGED << val, partial_ops, pending_ops, last_epochs, second, taken,
                    ctx, result >>
    /\ UNCHANGED << hist, appended, init, atCall, publishedN, quiet >>
    /\ UNCHANGED readerVars
    /\ cyc' = [cyc EXCEPT !.swaps = @ + 1]
    /\ moved' = {}
    /\ UNCHANGED << absorbs, lastCall, syncs >>
    /\ UNCHANGED lifeVars
    /\ UNCHANGED cycleVars

\* publish returns and releases the registry lock: to the user, or into
\* take_inner, after its first publish to the test of partial, after its
\* second to the assertion
PublishReturn(snapshot) ==
    /\ publishedN' = Len(appended)
    /\ refreshes' = IF cfg_test THEN refreshes + 1 ELSE refreshes
    /\ quiet' = Min(quiet + 1, 2)
    /\ spanned' = [s \in Slots |->
                     IF rpc[s] # "out" /\ spanned[s] >= 0
                     THEN Min(spanned[s] + 1, 2) ELSE spanned[s]]
    /\ pc' = IF ctx = "user" THEN "idle"
             ELSE IF ctx = "take_first" THEN "take_again"
             ELSE "take_assert"
    /\ last_epochs' = snapshot
    /\ cyc' = CycNone
    /\ UNCHANGED << ctx, ii, atCall, moved >>

\* a snapshot loop that keeps the value it has
EpochLoadNone(s) == last_epochs[s]

\* the snapshot loop's load of one slot's counter
EpochLoad(s) == epochs[s]

\* one iteration of the snapshot loop: load one slot's counter, unless the
\* slot is vacant; after the last slot publish returns
Snapshot ==
    /\ pc = "snap"
    /\ LET snapshot == IF Occupied(ii)
                       THEN [last_epochs EXCEPT ![ii] = EpochLoad(ii)]
                       ELSE last_epochs
       IN  IF ii < Registered
           THEN /\ last_epochs' = snapshot
                /\ ii' = ii + 1
                /\ UNCHANGED << pc, ctx, atCall, publishedN, quiet, spanned,
                                cyc, moved, refreshes >>
           ELSE PublishReturn(snapshot)
    /\ UNCHANGED << val, w_handle, r_handle, partial_ops, pending_ops, second,
                    taken, result >>
    /\ UNCHANGED << hist, appended, init, swappedN >>
    /\ UNCHANGED << epochs, rpc, held >>
    /\ reused' = reused \ {ii}
    /\ UNCHANGED << absorbs, lastCall, syncs >>
    /\ UNCHANGED lifeVars
    /\ UNCHANGED << cfg_test, via, bornAt >>

\* take_inner that does not look at the taken flag
AlreadyTakenNever == FALSE

\* take_inner's test that the inner structure was taken before
AlreadyTaken == taken

\* take_inner, called by who ("take" or "drop"), up to its first publish or
\* its assertion. Once taken, it returns None: Drop::drop then has nothing
\* to do, and take's expect would panic.
take_inner(who) ==
    IF AlreadyTaken
    THEN /\ pc' = IF who = "drop" THEN "gone" ELSE "panic"
         /\ UNCHANGED << taken, caller, ctx, ii, last_epochs, atCall, cyc,
                         moved >>
    ELSE /\ taken' = TRUE
         /\ caller' = who
         /\ IF ~is_empty(partial_ops) \/ ~is_empty(pending_ops)
            THEN CallPublish("take_first")
            ELSE /\ pc' = "take_assert"
                 /\ UNCHANGED << ctx, ii, last_epochs, atCall, cyc, moved >>

\* WriteHandle::take
Take ==
    /\ pc = "idle"
    /\ take_inner("take")
    /\ lastCall' = "take"
    /\ UNCHANGED << val, w_handle, r_handle, partial_ops, pending_ops, second,
                    result >>
    /\ UNCHANGED << hist, appended, init, swappedN, publishedN, quiet >>
    /\ UNCHANGED readerVars
    /\ UNCHANGED << absorbs, syncs, box, reclaim >>
    /\ UNCHANGED cycleVars

\* Drop for WriteHandle: of a handle the user still owns, or of the handle
\* take consumed, when take returns
Drop ==
    /\ pc \in {"idle", "done"}
    /\ take_inner("drop")
    /\ lastCall' = "drop"
    /\ UNCHANGED << val, w_handle, r_handle, partial_ops, pending_ops, second,
                    result >>
    /\ UNCHANGED << hist, appended, init, swappedN, publishedN, quiet >>
    /\ UNCHANGED readerVars
    /\ UNCHANGED << absorbs, syncs, box, reclaim >>
    /\ UNCHANGED cycleVars

\* take_inner that always publishes a second time
PublishAgainAlways == TRUE

\* take_inner's test after its first publish
PublishAgain == ~is_empty(partial_ops)

\* take_inner after its first publish has returned: it publishes once more
\* when partial is not empty, and goes on to its assertion otherwise
TakeAgain ==
    /\ pc = "take_again"
    /\ IF PublishAgain
       THEN CallPublish("take_second")
       ELSE /\ pc' = "take_assert"
            /\ UNCHANGED << ctx, ii, last_epochs, atCall, cyc, moved >>
    /\ UNCHANGED << val, w_handle, r_handle, partial_ops, pending_ops, second,
                    taken, result >>
    /\ UNCHANGED << hist, appended, init, swappedN, publishedN, quiet >>
    /\ UNCHANGED readerVars
    /\ UNCHANGED << absorbs, lastCall, syncs >>
    /\ UNCHANGED lifeVars
    /\ UNCHANGED cycleVars

\* take_inner's assertion that both batches are empty
TakeAssert ==
    /\ pc = "take_assert"
    /\ pc' = IF is_empty(partial_ops) /\ is_empty(pending_ops)
             THEN "take_null" ELSE "panic"
    /\ UNCHANGED << val, w_handle, r_handle, partial_ops, pending_ops,
                    last_epochs, second, taken, ctx, ii, result >>
    /\ UNCHANGED ghostVars
    /\ UNCHANGED readerVars
    /\ UNCHANGED auditVars

\* take_inner swaps the foreground pointer to null
TakeNull ==
    /\ pc = "take_null"
    /\ result' = r_handle
    /\ r_handle' = NULL
    /\ pc' = "take_lock"
    /\ UNCHANGED << val, w_handle, partial_ops, pending_ops, last_epochs,
                    second, taken, ctx, ii >>
    /\ UNCHANGED ghostVars
    /\ UNCHANGED readerVars
    /\ UNCHANGED auditVars

\* take_inner locks the registry and starts wait
TakeLock ==
    /\ pc = "take_lock"
    /\ WaitBegin("take_wait")
    /\ UNCHANGED << val, w_handle, r_handle, partial_ops, pending_ops, second,
                    taken, result >>
    /\ UNCHANGED ghostVars
    /\ UNCHANGED readerVars
    /\ UNCHANGED << absorbs, lastCall, cyc, syncs >>
    /\ UNCHANGED lifeVars
    /\ UNCHANGED cycleVars

\* take_inner after wait: drop_first on the copy behind w_handle, and the
\* former foreground is returned in a Taken, to take's caller or to
\* Drop::drop
TakeDrop ==
    /\ pc = "take_drop"
    /\ pc' = IF caller = "drop" THEN "drop_inner" ELSE "done"
    /\ box' = "held"
    /\ reclaim' = [reclaim EXCEPT !.first = Append(@, w_handle),
                                  !.handed = Append(@, result)]
    /\ UNCHANGED << val, w_handle, r_handle, partial_ops, pending_ops,
                    last_epochs, second, taken, ctx, ii, result >>
    /\ UNCHANGED ghostVars
    /\ UNCHANGED readerVars
    /\ UNCHANGED << absorbs, lastCall, cyc, syncs, caller, moved >>
    /\ UNCHANGED cycleVars

\* Drop for Taken, which calls drop_second on the copy it holds: run by
\* Drop::drop of the handle on the Taken it got (drop(inner)), or by the
\* user on the Taken take returned, once the handle is gone
TakenDrop ==
    /\ \/ pc = "drop_inner" /\ pc' = "gone"
       \/ pc = "gone" /\ pc' = pc
    /\ box = "held"
    /\ box' = "dropped"
    /\ reclaim' = [reclaim EXCEPT !.second = Append(@, result)]
    /\ UNCHANGED << val, w_handle, r_handle, partial_ops, pending_ops,
                    last_epochs, second, taken, ctx, ii, result >>
    /\ UNCHANGED ghostVars
    /\ UNCHANGED readerVars
    /\ UNCHANGED << absorbs, lastCall, cyc, syncs, caller, moved >>
    /\ UNCHANGED cycleVars

\* Taken::into_box: the user takes the Box out; Taken's drop then finds
\* nothing
IntoBox ==
    /\ pc = "gone"
    /\ box = "held"
    /\ box' = "unboxed"
    /\ UNCHANGED writerVars
    /\ UNCHANGED ghostVars
    /\ UNCHANGED readerVars
    /\ UNCHANGED << absorbs, lastCall, cyc, syncs, caller, reclaim, moved >>
    /\ UNCHANGED cycleVars

(* ------------------------------ the readers --------------------------- *)

\* fetch-add 1 into the own epoch, in a counter that wraps at m, on entry
EnterSection(s, m) ==
    /\ s \in DOMAIN epochs
    /\ rpc[s] = "out"
    /\ epochs' = [epochs EXCEPT ![s] = (@ + 1) % m]
    /\ rpc' = [rpc EXCEPT ![s] = "entered"]
    /\ spanned' = [spanned EXCEPT ![s] =
                      IF pc = "idle" /\ ~second THEN 0 ELSE -1]
    /\ UNCHANGED << held, reused >>
    /\ UNCHANGED writerVars
    /\ UNCHANGED ghostVars
    /\ UNCHANGED auditVars

\* entry, first half: fetch-add 1 into the own epoch
ReaderEnter(s) == EnterSection(s, EpochMod)

\* entry, second half: acquire-load of the foreground pointer
ReaderLoad(s) ==
    /\ s \in DOMAIN epochs
    /\ rpc[s] = "entered"
    /\ held' = [held EXCEPT ![s] = r_handle]
    /\ rpc' = [rpc EXCEPT ![s] = "in"]
    /\ UNCHANGED << epochs, spanned, reused >>
    /\ UNCHANGED writerVars
    /\ UNCHANGED ghostVars
    /\ UNCHANGED auditVars

\* fetch-add 1 into the own epoch, in a counter that wraps at m, on exit
ExitSection(s, m) ==
    /\ s \in DOMAIN epochs
    /\ rpc[s] = "in"
    /\ epochs' = [epochs EXCEPT ![s] = (@ + 1) % m]
    /\ rpc' = [rpc EXCEPT ![s] = "out"]
    /\ held' = [held EXCEPT ![s] = NULL]
    /\ spanned' = [spanned EXCEPT ![s] = -1]
    /\ UNCHANGED reused
    /\ UNCHANGED writerVars
    /\ UNCHANGED ghostVars
    /\ UNCHANGED auditVars

\* exit: fetch-add 1 into the own epoch
ReaderExit(s) == ExitSection(s, EpochMod)

\* the writer does not hold the registry lock: publish takes it before it
\* calls wait and holds it until it returns, take_inner takes it after the
\* null swap and holds it until it returns; a writer that is gone, or that
\* has panicked and unwound, holds nothing
RegistryFree ==
    pc \in {"idle", "take_again", "take_assert", "take_null", "take_lock",
            "done", "drop_inner", "gone", "panic"}

\* a fresh counter of any parity
FreshEpochsAny == 0 .. (EpochMod - 1)

\* the counter of a newly registered reader: even, as the reader is outside
\* a critical section
FreshEpochs == {e \in 0 .. (EpochMod - 1) : e % 2 = 0}

\* a reader handle is destroyed: under the registry lock, its slot is
\* released; the guard of a critical section borrows the handle, so the
\* reader is outside
Deregister(s) ==
    /\ RegistryFree
    /\ s \in DOMAIN epochs
    /\ rpc[s] = "out"
    /\ rpc' = [rpc EXCEPT ![s] = "vacant"]
    /\ epochs' = [epochs EXCEPT ![s] = 0]
    /\ reused' = reused \ {s}
    /\ UNCHANGED << held, spanned >>
    /\ UNCHANGED writerVars
    /\ UNCHANGED ghostVars
    /\ UNCHANGED auditVars

\* a reader handle is created: under the registry lock, a fresh counter is
\* inserted into a vacant slot
Register(s) ==
    /\ RegistryFree
    /\ s \in DOMAIN epochs
    /\ rpc[s] = "vacant"
    /\ rpc' = [rpc EXCEPT ![s] = "out"]
    /\ \E e \in FreshEpochs : epochs' = [epochs EXCEPT ![s] = e]
    /\ reused' = reused \cup {s}
    /\ UNCHANGED << held, spanned >>
    /\ UNCHANGED writerVars
    /\ UNCHANGED ghostVars
    /\ UNCHANGED auditVars

\* the writer's steps inside publish and take
WriterStep ==
    \/ Publish
    \/ WaitStep
    \/ Absorb
    \/ SwapPointer
    \/ Snapshot
    \/ Take
    \/ TakeAgain
    \/ TakeAssert
    \/ TakeNull
    \/ TakeLock
    \/ TakeDrop

\* The writer with two readers; the k-th appended operation carries delta k.
Next ==
    \/ AppendOp(Len(appended) + 1, MaxOpsConc)
    \/ WriterStep
    \/ \E s \in Slots : ReaderEnter(s)
    \/ \E s \in Slots : ReaderLoad(s)
    \/ \E s \in Slots : ReaderExit(s)

Spec == Init /\ [][Next]_vars

\* The writer alone (no reader ever enters), with any deltas.
NextWriter ==
    \/ \E d \in Deltas : AppendOp(d, MaxOps)
    \/ WriterStep
    \/ Flush
    \/ Drop
    \/ TakenDrop
    \/ IntoBox

SpecWriter == InitWriter /\ [][NextWriter]_vars

\* a registry with no reader, or with a reader in every slot
InitLive ==
    \E registry \in {<< >>, [s \in Slots |-> 0]} :
        InitState(2, registry, "drains", FALSE)

\* a counter wide enough for MaxSections critical sections of one reader
\* without a wrap-around
EpochModWide == 2 ^ (EpochBits + MaxSections)

\* entry of a reader into one of its first MaxSections critical sections
ReaderEnterWide(s) ==
    /\ s \in DOMAIN epochs
    /\ epochs[s] < 2 * MaxSections
    /\ EnterSection(s, EpochModWide)

\* exit of a reader whose counter is wide
ReaderExitWide(s) == ExitSection(s, EpochModWide)

\* the writer's first append: one operation takes take_inner through both
\* of its publishes, and no loop of the writer depends on the data
AppendFirst ==
    /\ appended = << >>
    /\ AppendOp(1, 1)

NextLive ==
    \/ AppendFirst
    \/ WriterStep
    \/ \E s \in Slots : ReaderEnterWide(s)
    \/ \E s \in Slots : ReaderLoad(s)
    \/ \E s \in Slots : ReaderExitWide(s)

\* The writer thread keeps running once it is inside a call, and a reader
\* that has entered a critical section loads the pointer and exits; nothing
\* obliges a reader to enter or the user to call.
FairLive ==
    /\ WF_vars(WaitStep \/ Absorb \/ SwapPointer \/ Snapshot \/ TakeAgain
                \/ TakeAssert \/ TakeNull \/ TakeLock \/ TakeDrop)
    /\ \A s \in Slots : WF_vars(ReaderLoad(s)) /\ WF_vars(ReaderExitWide(s))

SpecLive == InitLive /\ [][NextLive]_vars /\ FairLive

\* the slots whose reader handle is dropped and created anew; the reader of
\* the other slot keeps its handle
Transient == {1}

\* The writer with two readers, one of which may release its slot for a new
\* reader to register in it.
NextReuse ==
    \/ AppendFirst
    \/ WriterStep
    \/ \E s \in Slots : ReaderEnter(s)
    \/ \E s \in Slots : ReaderLoad(s)
    \/ \E s \in Slots : ReaderExit(s)
    \/ \E s \in Transient : Deregister(s)
    \/ \E s \in Transient : Register(s)

SpecReuse == Init /\ [][NextReuse]_vars

\* The writer alone, in a build that counts its publishes.
InitCycles ==
    \E i \in InitVals : InitState(i, [s \in Slots |-> 0], "drains", TRUE)

SpecCycles == InitCycles /\ [][NextWriter]_vars

\* The writer alone, over a data type that may break absorb_second's contract.
SpecContract == InitContract /\ [][NextWriter]_vars

(* ------------------------- what the properties use -------------------- *)

\* the sum of the first n deltas of seq
RECURSIVE DeltaSum(_, _)
DeltaSum(seq, n) == IF n = 0 THEN 0 ELSE DeltaSum(seq, n - 1) + seq[n]

IsPrefix(p, q) == Len(p) <= Len(q) /\ SubSeq(q, 1, Len(p)) = p

\* reader s is inside a critical section that loaded a pointer to copy c
Inside(s, c) == rpc[s] = "in" /\ held[s] = c

\* copy c holds the initial value plus exactly the first Len(hist[c])
\* appended operations
Consistent(c) ==
    /\ IsPrefix(hist[c], appended)
    /\ val[c] = init + DeltaSum(appended, Len(hist[c]))

(* ------------------------------- C1 ----------------------------------- *)

\* C1: from the return of wait until the pointer swap, while publish mutates
\* the copy behind w_handle (sync_with, absorb_second, absorb_first), no
\* reader is inside a critical section that loaded a pointer to that copy.
C1_NoReaderInMutatedCopy ==
    pc \in {"absorb", "swap"} => \A s \in Slots : ~Inside(s, w_handle)

\* a publish after the first is about to mutate the background while a
\* reader, whose snapshot was odd, is inside the foreground
C1_Witness ==
    /\ pc = "absorb"
    /\ ~second
    /\ \E s \in Slots : Inside(s, r_handle) /\ last_epochs[s] % 2 = 1

(* ------------------------------- C2 ----------------------------------- *)

\* C2: when take has returned the former foreground as an owned value, no
\* reader is inside a critical section that loaded a pointer to that copy.
C2_TakenCopyFreeOfReaders ==
    pc = "done" => \A s \in Slots : ~Inside(s, result)

(* ------------------------------- C3 ----------------------------------- *)

\* C3: a reader that loads the foreground pointer gets a copy that has
\* absorbed every operation covered by a publish that has returned, and the
\* copy a reader is inside keeps every operation it has absorbed, so a
\* critical section that begins after a publish returned reads all of that
\* publish's operations.
C3_Visibility ==
    [][\A s \in Slots :
         (rpc'[s] = "in" /\ held'[s] # NULL) =>
             IF rpc[s] = "in"
             THEN /\ held'[s] = held[s]
                  /\ IsPrefix(hist[held[s]], hist'[held[s]])
             ELSE /\ Len(hist'[held'[s]]) >= publishedN'
                  /\ IsPrefix(hist'[held'[s]], appended')
                  /\ val'[held'[s]] =
                        init' + DeltaSum(appended', Len(hist'[held'[s]]))
      ]_vars

\* a reader is inside a copy that holds a published operation, two publishes
\* after the one that published it
C3_Witness ==
    /\ publishedN >= 1
    /\ quiet = 2
    /\ \E s \in Slots :
         /\ rpc[s] = "in" /\ held[s] # NULL
         /\ Len(hist[held[s]]) >= publishedN
         /\ val[held[s]] = init + DeltaSum(appended, publishedN)

(* ------------------------------- C4 ----------------------------------- *)

\* C4: the foreground copy, and every copy a reader is inside, reflects only
\* operations whose publish cycle has performed its pointer swap.
C4_NoSpuriousVisibility ==
    \A c \in Copies :
        (c = r_handle \/ \E s \in Slots : Inside(s, c)) =>
            /\ Len(hist[c]) <= swappedN
            /\ Consistent(c)

\* an operation is appended, and even absorbed by the background, but not
\* swapped in: a reader inside the foreground reads the value without it
C4_Witness ==
    /\ pc = "swap"
    /\ Len(hist[w_handle]) > swappedN
    /\ \E s \in Slots :
         /\ Inside(s, r_handle)
         /\ val[held[s]] = init + DeltaSum(appended, swappedN)
         /\ val[held[s]] # val[w_handle]

(* ------------------------------- C5 ----------------------------------- *)

\* C5: take returns the initial value plus the sum of every delta appended.
C5_TakeReturnsSum ==
    pc = "done" => val[result] = init + DeltaSum(appended, Len(appended))

\* take has returned after MaxOps appends of a counter that started at 2
C5_Witness ==
    /\ pc = "done"
    /\ init = 2
    /\ Len(appended) = MaxOps
    /\ val[result] = init + DeltaSum(appended, MaxOps)

(* ------------------------------- C6 ----------------------------------- *)

\* C6: after two publishes with no append in between, both batches are
\* empty and the two copies are equal; and both batches are empty whenever
\* take_inner evaluates its assertion.
C6_Convergence ==
    /\ quiet = 2 =>
         /\ is_empty(partial_ops) /\ is_empty(pending_ops)
         /\ val["left"] = val["right"]
         /\ hist["left"] = hist["right"]
         /\ hist["left"] = appended
    /\ pc = "take_assert" => is_empty(partial_ops) /\ is_empty(pending_ops)
    /\ pc # "panic"

\* take_inner reaches its assertion after its two publishes, with MaxOps
\* operations absorbed by both copies
C6_Witness ==
    /\ pc = "take_assert"
    /\ quiet = 2
    /\ Len(appended) = MaxOps
    /\ hist["left"] = appended /\ hist["right"] = appended

(* ------------------------------- C7 ----------------------------------- *)

\* C7: no publish returns while a reader holds a critical section it
\* entered between publishes, after a publish had completed.
C7_NextPublishBlocks == \A s \in Slots : spanned[s] <= 0

(* ------------------------------- C8 ----------------------------------- *)

\* C8 as stated: between publish calls, every operation absorbed into the
\* foreground copy has been absorbed into the background copy too.
C8_AbsorbedInBoth ==
    (pc = "idle" /\ r_handle # NULL) =>
        IsPrefix(hist[r_handle], hist[w_handle])

\* C8, amended: between publish calls, every operation absorbed into the
\* foreground copy, other than those still held in partial, has been
\* absorbed into the background copy too.
C8_AbsorbedInBothButPartial ==
    (pc = "idle" /\ r_handle # NULL) =>
        /\ Len(partial_ops) <= Len(hist[r_handle])
        /\ IsPrefix(SubSeq(hist[r_handle], 1,
                           Len(hist[r_handle]) - Len(partial_ops)),
                    hist[w_handle])

\* between publishes, some operations are in both copies and some only in
\* the foreground and in partial
C8_Witness ==
    /\ pc = "idle"
    /\ ~is_empty(partial_ops)
    /\ ~is_empty(hist[w_handle])
    /\ Len(hist[r_handle]) = Len(hist[w_handle]) + Len(partial_ops)

(* ------------------------------- C9 ----------------------------------- *)

\* C9: between publish calls, after the first publish, partial is exactly
\* the operations the foreground has absorbed and the background has not,
\* and the background's value is the foreground's without them.
C9_PartialIsTheLag ==
    (pc = "idle" /\ ~second) =>
        /\ hist[r_handle] = hist[w_handle] \o partial_ops
        /\ val[w_handle] =
              val[r_handle] - DeltaSum(partial_ops, Len(partial_ops))

\* the background lags the foreground by a batch of two operations
C9_Witness ==
    /\ pc = "idle"
    /\ ~second
    /\ Len(partial_ops) = 2
    /\ val[w_handle] # val[r_handle]
    /\ ~is_empty(hist[w_handle])

(* ------------------------------- C10 ---------------------------------- *)

\* C10: when publish returns, pending is empty and partial is the batch
\* that was pending when the call began.
C10_PublishMovesPending ==
    [][(pc = "snap" /\ pc' # "snap") =>
          /\ ~has_pending_operations'
          /\ partial_ops' = atCall
      ]_vars

\* a publish called with two pending operations has just returned
C10_Witness ==
    /\ pc = "idle"
    /\ quiet = 1
    /\ Len(atCall) = 2
    /\ partial_ops = atCall
    /\ ~has_pending_operations

(* ------------------------------- C11 ---------------------------------- *)

\* absorb_second, called by the running publish, leaves its batch non-empty
LeavesBatch ==
    /\ pc = "absorb"
    /\ r_handle # NULL
    /\ ~is_empty(T_absorb_second(CopyOf(w_handle), partial_ops).log)

\* C11: if absorb_second leaves its batch non-empty, publish fails on an
\* assertion instead of continuing the cycle.
C11_LeftoverFails == [][LeavesBatch => pc' = "panic"]_vars

(* ------------------------------- C12 ---------------------------------- *)

\* C12: flush runs a publish cycle exactly when pending is non-empty, and a
\* flush that follows a flush, with no other call in between, starts no
\* cycle and changes neither the foreground pointer, nor a copy, nor a
\* batch, nor the epoch snapshot, so that readers see the same state; also
\* when partial is non-empty.
C12_FlushIdempotent ==
    [][(pc = "idle" /\ lastCall' \in {"flush", "flush_again"}) =>
          /\ pc' = IF is_empty(pending_ops) THEN "idle" ELSE "wait"
          /\ (lastCall' = "flush_again" \/ is_empty(pending_ops)) =>
                /\ pc' = "idle"
                /\ UNCHANGED << r_handle, w_handle, val, hist, partial_ops,
                                pending_ops, last_epochs >>
      ]_vars

\* a second flush has returned right after a flush that published two
\* operations, which are still in partial
C12_Witness ==
    /\ pc = "idle"
    /\ lastCall = "flush_again"
    /\ quiet = 1
    /\ Len(partial_ops) = 2
    /\ val[r_handle] # val[w_handle]

(* ------------------------------- C13 ---------------------------------- *)

\* C13: a publish that returns has performed exactly one wait, one replay
\* of partial (absorb_second) onto the copy that was the background when it
\* was called, and one pointer swap, whatever pending held; the roles of
\* the two copies are exchanged; and if pending was empty at the call, the
\* foreground holds the value it held at the call.
C13_OneCyclePerPublish ==
    [][(pc = "snap" /\ pc' # "snap") =>
          /\ cyc.waits = 1
          /\ Calls(cyc.calls, "absorb_second") = 1
          /\ cyc.target # cyc.fg
          /\ cyc.swaps = 1
          /\ r_handle' = cyc.target
          /\ w_handle' = cyc.fg
          /\ is_empty(atCall) => val'[r_handle'] = cyc.seen
      ]_vars

\* a publish called with empty pending and two operations in partial has
\* swapped the pointer and is about to return: the new foreground holds the
\* value the old one held, which is not the initial value
C13_Witness ==
    /\ pc = "snap"
    /\ ii = Capacity
    /\ quiet = 1
    /\ is_empty(atCall)
    /\ Len(hist[r_handle]) = 2
    /\ cyc.swaps = 1
    /\ val[r_handle] = cyc.seen
    /\ val[r_handle] # init

(* ------------------------------- C14 ---------------------------------- *)

\* what has been reclaimed so far is no more than one drop_first, one copy
\* handed out and one drop_second; once take_inner has returned its Taken,
\* drop_first has run on the copy the writer retained and the other copy,
\* the former foreground, was handed out; drop_second runs on no other copy
\* than the one handed out, and Drop::drop runs it on the Taken it gets
Reclaimed ==
    /\ Len(reclaim.first) <= 1
    /\ Len(reclaim.handed) <= 1
    /\ Len(reclaim.second) <= 1
    /\ pc \in {"done", "drop_inner", "gone"} =>
          /\ reclaim.first = << w_handle >>
          /\ reclaim.handed = << result >>
          /\ result \in Copies \ {w_handle}
    /\ reclaim.second # << >> => reclaim.second = reclaim.handed
    /\ (pc = "gone" /\ caller = "drop") => reclaim.second = reclaim.handed

\* C14: over the writer's lifetime, taken and then dropped or only dropped,
\* drop_first runs exactly once, on the writer-retained copy, the other copy
\* is handed out exactly once and gets drop_second at most once; and the
\* take_inner that Drop::drop runs after take returns changes no state.
C14_ReclaimedOnce ==
    [][/\ Reclaimed'
       /\ (pc = "done" /\ pc' # "done") =>
             /\ pc' = "gone"
             /\ UNCHANGED << val, w_handle, r_handle, partial_ops, pending_ops,
                             last_epochs, second, taken, result, box, reclaim >>
      ]_vars

\* the writer was taken after MaxOps appends, the handle was dropped when
\* take returned, and the user dropped the Taken
C14_Witness ==
    /\ pc = "gone"
    /\ caller = "take"
    /\ lastCall = "drop"
    /\ Len(appended) = MaxOps
    /\ box = "dropped"
    /\ reclaim = [first |-> << w_handle >>, handed |-> << result >>,
                  second |-> << result >>]

(* ------------------------------- C15 ---------------------------------- *)

\* C15: if every reader that enters a critical section exits it, then
\* from every position inside a call, in wait or past it, the writer reaches
\* the return of the call, of publish or of take, which it does only by
\* returning from every wait on the way; and with an empty registry wait
\* returns at its first step.
C15_WaitReturns ==
    /\ (pc \notin {"idle", "done"}) ~> (pc \in {"idle", "done"})
    /\ [][(pc = "wait" /\ Registered = 0) => pc' # "wait"]_vars

\* wait has passed the slot of a reader that left the critical section of
\* the snapshot and entered another one, on a counter that is odd and has
\* changed, and is held at the slot of a reader that is still inside the
\* critical section of the snapshot
C15_Witness ==
    /\ pc = "wait"
    /\ ii = 2
    /\ 1 \in moved
    /\ rpc[1] = "in"
    /\ epochs[1] = last_epochs[1] + 2
    /\ ~WaitPass(2)
    /\ rpc[2] = "in"

(* ------------------------------- C16 ---------------------------------- *)

\* C16: when wait returns, every registered slot has an even snapshot value
\* or is one whose counter wait loaded and found different from the
\* snapshot value, which it finds only at the slot it is looking at and
\* when the counter does differ; and wait stays at a slot whose snapshot
\* value is odd and whose counter equals it.
C16_WaitReturnsOnlyWhenQuiescent ==
    [][/\ (pc = "wait" /\ pc' # "wait") =>
             \A s \in DOMAIN epochs :
                 last_epochs[s] % 2 = 0 \/ s \in moved'
       /\ \A s \in moved' \ moved :
             /\ pc = "wait" /\ s = ii
             /\ last_epochs[s] % 2 = 1
             /\ epochs[s] # last_epochs[s]
       /\ (/\ pc = "wait" /\ ii \in DOMAIN epochs
           /\ last_epochs[ii] % 2 = 1
           /\ epochs[ii] = last_epochs[ii]) =>
             pc' = "wait" /\ ii' = ii
      ]_vars

\* wait has returned into publish after it was held at slot 1, whose reader
\* has left since, and skipped slot 2, whose snapshot is even and whose
\* reader is inside a critical section
C16_Witness ==
    /\ pc = "absorb"
    /\ moved = {1}
    /\ last_epochs[1] % 2 = 1
    /\ last_epochs[2] % 2 = 0
    /\ rpc[1] = "out"
    /\ rpc[2] = "in"

(* ------------------------------- C17 ---------------------------------- *)

\* the copy that is the background in publish n: the pointers are exchanged
\* once in every publish, and the first background is "left"
BackgroundOf(n) == IF n % 2 = 1 THEN "left" ELSE "right"

\* C17: after two publishes with no append in between, each copy has
\* absorbed every appended operation exactly once and in the order of
\* appending: the copy that is the background in the first publish after the
\* append by absorb_first in that publish, the other copy by absorb_second
\* in the publish that follows it.
C17_AbsorbedOnceByEach ==
    quiet = 2 =>
        /\ \A c \in Copies : hist[c] = appended /\ Len(via[c]) = Len(appended)
        /\ \A i \in 1..Len(appended) :
              LET n == bornAt[i] + 1
                  c == BackgroundOf(n)
                  d == BackgroundOf(n + 1)
              IN  /\ via[c][i] = [f |-> "absorb_first", n |-> n]
                  /\ via[d][i] = [f |-> "absorb_second", n |-> n + 1]

\* MaxOps operations, the first and the last appended with publishes in
\* between and so absorbed first by different copies, are in both copies
\* after two publishes without an append
C17_Witness ==
    /\ quiet = 2
    /\ cfg_test
    /\ Len(appended) = MaxOps
    /\ hist["left"] = appended /\ hist["right"] = appended
    /\ via["left"][1].f = "absorb_first"
    /\ via["left"][MaxOps].f = "absorb_second"

(* ------------------------------- C18 ---------------------------------- *)

\* C18: sync_with is called once by a writer that publishes: in its first
\* publish, when wait has returned and before absorb_second and
\* absorb_first, on the background copy and with the foreground copy to
\* read; a later publish does not call it, and a writer that is taken
\* without having published has not called it.
C18_SyncOnceInFirstPublish ==
    [][/\ (pc = "absorb" /\ pc' = "swap") =>
             /\ cyc.waits = 1 /\ cyc.calls = << >>
             /\ cyc'.calls =
                   (IF refreshes = 0 THEN << "sync_with" >> ELSE << >>) \o
                   << "absorb_second", "absorb_first" >>
             /\ cyc'.target = w_handle /\ cyc'.source = r_handle
             /\ syncs' = 1
       /\ syncs' # syncs => (pc = "absorb" /\ refreshes = 0)
       /\ (pc' = "done" /\ refreshes' = 0) => syncs' = 0
      ]_vars

\* the third publish of a writer has replayed without sync_with
C18_Witness ==
    /\ pc = "swap"
    /\ refreshes = 2
    /\ syncs = 1
    /\ cyc.calls = << "absorb_second", "absorb_first" >>
    /\ Len(appended) >= 1

(* ------------------------------- C19 ---------------------------------- *)

\* the first publish of take_inner returns
TakeFirstPublishReturns == pc = "snap" /\ pc' # "snap" /\ ctx = "take_first"

\* C19 as stated: whenever take_inner runs a first publish, partial is
\* non-empty after it and a second publish is run.
C19_TakePublishesTwice ==
    [][/\ TakeFirstPublishReturns => ~is_empty(partial_ops')
       /\ pc = "take_again" => ctx' = "take_second" /\ pc' = "wait"
      ]_vars

\* C19, amended: when take_inner runs a first publish, partial is non-empty
\* after it, and a second publish is run, exactly when pending was non-empty
\* when take was called; with only partial non-empty, take_inner runs one
\* publish and goes on to its assertion.
C19_TakePublishesTwiceIfPending ==
    [][/\ TakeFirstPublishReturns =>
             /\ pc' = "take_again"
             /\ is_empty(partial_ops') <=> is_empty(atCall)
       /\ pc = "take_again" =>
             IF is_empty(atCall)
             THEN pc' = "take_assert" /\ ctx' = ctx
             ELSE pc' = "wait" /\ ctx' = "take_second"
      ]_vars

\* take_inner was called with pending empty and an operation in partial,
\* and is at its assertion after one publish
C19_Witness ==
    /\ pc = "take_assert"
    /\ ctx = "take_first"
    /\ is_empty(atCall)
    /\ quiet = 2
    /\ Len(appended) >= 1

(* ------------------------------- C20 ---------------------------------- *)

\* a publish has returned and no wait has returned since
PublishedNotWaited ==
    /\ ~second
    /\ pc \in {"idle", "wait", "take_again", "take_assert", "take_null",
                "take_lock"}

\* C20: from the return of a publish until the next wait returns, a reader
\* whose snapshot value is even is not inside the background copy, and a
\* reader inside the background copy has an odd snapshot value that equals
\* its counter.
C20_SnapshotCoversBackground ==
    PublishedNotWaited =>
        \A s \in DOMAIN epochs :
            /\ last_epochs[s] % 2 = 0 => ~Inside(s, w_handle)
            /\ Inside(s, w_handle) =>
                  last_epochs[s] % 2 = 1 /\ last_epochs[s] = epochs[s]

\* the next publish waits at slot 1 for a reader that is inside the
\* background copy, while the reader of slot 2, whose snapshot value is
\* even, is inside the foreground copy
C20_Witness ==
    /\ PublishedNotWaited
    /\ pc = "wait"
    /\ ii = 1
    /\ Inside(1, w_handle)
    /\ last_epochs[1] % 2 = 1
    /\ last_epochs[2] % 2 = 0
    /\ Inside(2, r_handle)

(* ------------------------------- C21 ---------------------------------- *)

\* take_inner has swapped the foreground pointer to null
Nulled ==
    \/ pc = "wait" /\ ctx = "take_wait"
    \/ pc \in {"take_lock", "take_drop", "done", "drop_inner"}
    \/ pc = "gone" /\ result # NULL

\* the foreground pointer names one copy and the writer-retained pointer
\* names the other, until take_inner has swapped the foreground to null
TwoCopies ==
    /\ raw_write_handle \in Copies
    /\ r_handle = NULL <=> Nulled
    /\ r_handle # NULL => r_handle \in Copies \ {raw_write_handle}
    /\ pc \in {"absorb", "swap"} => r_handle # NULL
    /\ pc # "panic"

\* C21: from construction until take swaps it to null, the foreground
\* pointer is non-null and names one of the two copies, and the pointer
\* raw_write_handle returns names the other one; a publish that loads the
\* foreground pointer finds it non-null; and once the pointer is null it
\* stays null, no publish is at its replay or its swap, and no copy, batch
\* or pointer of the writer changes.
C21_PointersNameTheTwoCopies ==
    /\ []TwoCopies
    /\ [][r_handle = NULL =>
             /\ r_handle' = NULL
             /\ pc' \notin {"absorb", "swap", "snap"}
             /\ UNCHANGED << val, hist, w_handle, partial_ops, pending_ops >>
         ]_vars

\* the writer published three times, so that the pointers were exchanged an
\* odd number of times, and was then taken and dropped: the pointer is null
\* and the writer-retained pointer names the copy that was the first
\* foreground
C21_Witness ==
    /\ pc = "gone"
    /\ caller = "take"
    /\ r_handle = NULL
    /\ raw_write_handle = "right"
    /\ result = "left"
    /\ Len(appended) = MaxOps

(* ------------------------------- C22 ---------------------------------- *)

\* C22: with readers that release their slot while outside a critical
\* section and new readers that register in a released slot, both while the
\* writer does not hold the registry lock, wait's decisions stay sound: no
\* reader is inside the background copy at a slot wait has passed, nor at a
\* slot registered anew since the snapshot loop last passed it, and from the
\* return of wait until the pointer swap, while the writer mutates the
\* background copy, and when take_inner calls drop_first on it, no reader,
\* old or new, is inside it.
C22_ReuseKeepsWaitSound ==
    /\ pc \in {"absorb", "swap", "take_drop"} =>
          \A s \in Slots : ~Inside(s, w_handle)
    /\ pc = "wait" => \A s \in 1..(ii - 1) : ~Inside(s, w_handle)
    /\ pc # "snap" => \A s \in reused : ~Inside(s, w_handle)

\* the reader of slot 1 was inside the old foreground at the snapshot; it
\* left and released the slot, and a new reader registered in it and is
\* inside a critical section when wait passes the slot, on a counter that
\* differs from the odd snapshot value, and publish goes on to mutate the
\* background copy
C22_Witness ==
    /\ pc = "absorb"
    /\ ~second
    /\ 1 \in reused
    /\ moved = {1}
    /\ last_epochs[1] % 2 = 1
    /\ Inside(1, r_handle)

(* ------------------------------- C23 ---------------------------------- *)

\* reader s is between the fetch-add of its entry and that of its exit
InSection(s) == rpc[s] \in {"entered", "in"}

\* C23: with counters of EpochBits bits that wrap around, a reader's counter
\* is odd exactly while the reader is inside a critical section, whatever
\* the number of times it has wrapped, and from the return of wait until the
\* pointer swap no reader is inside the copy the writer mutates, also when
\* a counter has wrapped since the snapshot.
C23_ParityAcrossWrap ==
    \A s \in Slots :
        /\ epochs[s] \in 0 .. (EpochMod - 1)
        /\ epochs[s] % 2 = 1 <=> InSection(s)
        /\ pc \in {"absorb", "swap"} => ~Inside(s, w_handle)

\* the snapshot of slot 1 is the largest counter value, taken while its
\* reader was inside the old foreground; the counter has wrapped to 0 since
\* and the reader is inside a new critical section, with counter 1, when
\* wait has passed the slot and publish mutates the background copy
C23_Witness ==
    /\ pc = "absorb"
    /\ ~second
    /\ moved = {1}
    /\ last_epochs[1] = EpochMod - 1
    /\ epochs[1] = 1
    /\ Inside(1, r_handle)

(* ------------------------------- C24 ---------------------------------- *)

\* C24: when take_inner's wait has returned and drop_first is called on the
\* copy behind w_handle, and from then on, no reader is inside a critical
\* section that loaded a pointer to that copy.
C24_DropFirstFreeOfReaders ==
    pc \in {"take_drop", "done"} => \A s \in Slots : ~Inside(s, w_handle)

\* the reader of slot 1 was in a critical section at the latest publish's
\* snapshot, where the copy that is now the background may be the one it
\* loaded; take_inner's wait, after the pointer was set to null, passed the
\* slot on a counter that had changed, the reader having left, and
\* drop_first is about to run
C24_Witness ==
    /\ pc = "take_drop"
    /\ ~second
    /\ moved = {1}
    /\ last_epochs[1] % 2 = 1
    /\ rpc[1] = "out"
    /\ epochs[1] = (last_epochs[1] + 1) % EpochMod

====
